---- MODULE Spec2Model ----
(***************************************************************************)
(* Model of scripts/run_flaky_quarantine.py: the flaky-test quarantine     *)
(* engine.  One invocation of main() is a process that walks through the   *)
(* script: load the flaky patterns, resolve them against the discovered    *)
(* tests, run every selected test `repeat` times, load the persisted       *)
(* state, update clean streak and instability history per pattern, decide  *)
(* demotion, then write the flaky file, the state, the report, the raw     *)
(* log and the sparkline file and optionally post a PR comment.            *)
(*                                                                         *)
(* Text is modelled as a sequence of one-character strings, so that        *)
(* strip(), the filename rule, regular-expression search and substring     *)
(* containment are computed and not assumed.  Instability values are       *)
(* integers in units of 1/Scale (the code rounds them to four decimals);    *)
(* with at most two attempts per test and at most two tests per pattern    *)
(* every value is a multiple of 1/4 and the float arithmetic of the code  *)
(* is exact, so the integer arithmetic below computes what the code does.  *)
(***************************************************************************)
EXTENDS Integers, Sequences, FiniteSets, TLC

\* ------------------------------------------------------------------ bounds
\* Number of invocations of the script in one behaviour of Spec.
MaxInvocations == 3
\* Number of invocations in one behaviour of SpecLong (history truncation).
MaxLongInvocations == 11
\* Number of invocations in one behaviour of SpecResolve (resolution).
MaxResolveInvocations == 1
\* Number of invocations in one behaviour of SpecConcurrent (two at a time).
MaxConcurrentInvocations == 2
\* Number of invocations in one behaviour of SpecReadd (demotion, re-adding).
MaxReaddInvocations == 3
\* Number of invocations in one behaviour of SpecRound (rounding to 0.0).
MaxRoundInvocations == 2
\* A value of --repeat so large that one failure rounds to 0.0000.
RoundRepeat == 20001

\* ------------------------------------------------------- program constants
\* round(x, 4): values are kept in units of 1/10000.
Scale == 10000
\* max(args.history_windows, 10): the floor of the history cap.
HistoryFloor == 10
\* len('▁▂▃▄▅▆▇█')
GlyphLevels == 8
\* round(x, 4): a history value has at most four decimals.
FracDigits == 4

\* ------------------------------------------------------------------- text
Whitespace == {" "}
\* [A-Za-z0-9_\-] of the filename rule, over the characters the model uses.
NameChars == {"a", "b", "c", "p", "x", "_", "-"}
\* (cpp|cc|cxx)
Extensions == {<<"c", "p", "p">>, <<"c", "c">>, <<"c", "x", "x">>}

\* Code point of a character: the order sorted() uses on str.
Code(c) ==
    CASE c = " " -> 32 [] c = "#" -> 35 [] c = "(" -> 40 [] c = "+" -> 43
      [] c = "-" -> 45 [] c = "." -> 46 [] c = "_" -> 95 [] c = "a" -> 97
      [] c = "b" -> 98 [] c = "c" -> 99 [] c = "p" -> 112 [] c = "x" -> 120

Max(a, b) == IF a >= b THEN a ELSE b
Min(a, b) == IF a <= b THEN a ELSE b

RECURSIVE LStrip(_)
LStrip(s) == IF s # <<>> /\ Head(s) \in Whitespace THEN LStrip(Tail(s)) ELSE s

RECURSIVE RStrip(_)
RStrip(s) ==
    IF s # <<>> /\ s[Len(s)] \in Whitespace
    THEN RStrip(SubSeq(s, 1, Len(s) - 1)) ELSE s

\* str.strip()
Strip(s) == RStrip(LStrip(s))

\* str.endswith(e)
EndsWith(s, e) ==
    /\ Len(e) <= Len(s)
    /\ SubSeq(s, Len(s) - Len(e) + 1, Len(s)) = e

\* `sub in t` on str: plain substring containment.
Contains(sub, t) ==
    \E i \in 1..(Len(t) - Len(sub) + 1) : SubSeq(t, i, i + Len(sub) - 1) = sub

\* re.match(r'([A-Za-z0-9_\-]+)\.(cpp|cc|cxx)$', line): the extension the
\* line ends with, when the part before the dot is a non-empty name.
FilenameExt(line) ==
    {e \in Extensions :
        /\ EndsWith(line, <<".">> \o e)
        /\ Len(line) > Len(e) + 1
        /\ \A i \in 1..(Len(line) - Len(e) - 1) : line[i] \in NameChars}

IsFilename(line) == FilenameExt(line) # {}

\* m.group(1)
BaseToken(line) ==
    LET e == CHOOSE x \in FilenameExt(line) : TRUE
    IN  SubSeq(line, 1, Len(line) - Len(e) - 1)

\* The pattern one stripped line of the flaky file yields (lines 45-50).
PatternOfLine(line) == IF IsFilename(line) THEN BaseToken(line) ELSE line

\* Lines 42-43: blank lines and comment lines yield no pattern.
IsPatternLine(raw) == Strip(raw) # <<>> /\ Head(Strip(raw)) # "#"

\* Lines 40-50: the list of patterns of the flaky file, in file order.
RECURSIVE LoadPatterns(_)
LoadPatterns(lines) ==
    IF lines = <<>> THEN <<>>
    ELSE IF IsPatternLine(Head(lines))
         THEN <<PatternOfLine(Strip(Head(lines)))>> \o LoadPatterns(Tail(lines))
         ELSE LoadPatterns(Tail(lines))

\* ------------------------------------------------------ regular expressions
\* The regular expressions of the model are sequences of atoms (a literal
\* character or "."), each optionally followed by the quantifier "+".
\* re.compile raises re.error for "(" without ")" (the alphabet has no ")")
\* and for a quantifier with nothing to repeat ("+" first, or "++" before
\* Python 3.11; no line of the model holds "++").
Compiles(pat) ==
    /\ \A i \in 1..Len(pat) : pat[i] # "("
    /\ \A i \in 1..Len(pat) :
          pat[i] = "+" => (i > 1 /\ pat[i - 1] # "+")

AtomMatches(atom, c) == atom = "." \/ atom = c

\* Whether pat[k..] matches a prefix of t[i..].
RECURSIVE MatchFrom(_, _, _, _)
MatchFrom(pat, k, t, i) ==
    IF k > Len(pat) THEN TRUE
    ELSE IF k < Len(pat) /\ pat[k + 1] = "+"
         THEN \E n \in 1..(Len(t) - i + 1) :
                 /\ \A j \in i..(i + n - 1) : AtomMatches(pat[k], t[j])
                 /\ MatchFrom(pat, k + 2, t, i + n)
         ELSE /\ i <= Len(t)
              /\ AtomMatches(pat[k], t[i])
              /\ MatchFrom(pat, k + 1, t, i + 1)

\* rx.search(t) for a pattern that compiles
Search(pat, t) == \E i \in 1..(Len(t) + 1) : MatchFrom(pat, 1, t, i)

\* --------------------------------------------------------------- sorting
\* s < t on str: lexicographic by code point.
RECURSIVE StrLess(_, _)
StrLess(s, t) ==
    IF t = <<>> THEN FALSE
    ELSE IF s = <<>> THEN TRUE
    ELSE IF Head(s) # Head(t) THEN Code(Head(s)) < Code(Head(t))
    ELSE StrLess(Tail(s), Tail(t))

\* sorted(S) for a set of strings
RECURSIVE Sorted(_)
Sorted(S) ==
    IF S = {} THEN <<>>
    ELSE LET m == CHOOSE x \in S : \A y \in S \ {x} : StrLess(x, y)
         IN  <<m>> \o Sorted(S \ {m})

Range(s) == {s[i] : i \in 1..Len(s)}

\* ------------------------------------------------------------- resolution
\* Lines 81-91: the tests one pattern adds to `selected`: the names the
\* regular expression finds, else (no match, or re.error) the names that
\* contain the pattern as a substring.
ContributionBoth(pat, discovered) ==
    {t \in discovered : (Compiles(pat) /\ Search(pat, t)) \/ Contains(pat, t)}
Contribution(pat, discovered) ==
    LET matched == {t \in discovered : Search(pat, t)}
    IN  IF Compiles(pat) /\ matched # {}
        THEN matched
        ELSE {t \in discovered : Contains(pat, t)}

\* Lines 79-92: selected = sorted(union of the contributions)
RECURSIVE ResolveInPatternOrder(_, _)
ResolveInPatternOrder(patterns, discovered) ==
    IF patterns = <<>> THEN <<>>
    ELSE Sorted(Contribution(Head(patterns), discovered))
            \o ResolveInPatternOrder(Tail(patterns), discovered)
ResolveDescending(patterns, discovered) ==
    LET up == Sorted(UNION {Contribution(patterns[i], discovered) :
                               i \in 1..Len(patterns)})
    IN  [n \in 1..Len(up) |-> up[Len(up) + 1 - n]]
ResolveSelected(patterns, discovered) ==
    Sorted(UNION {Contribution(patterns[i], discovered) : i \in 1..Len(patterns)})

\* Line 136: the substring a pattern that does not compile is looked up by.
FallbackToken(pat) ==
    IF EndsWith(pat, <<".", "c", "p", "p">>)
    THEN SubSeq(pat, 1, Len(pat) - 4) ELSE pat

\* Lines 132-136: the tests of `selected` a pattern is scored on.
Related(pat, selected) ==
    IF Compiles(pat)
    THEN {t \in Range(selected) : Search(pat, t)}
    ELSE {t \in Range(selected) : Contains(FallbackToken(pat), t)}

\* ------------------------------------------------------------------ scoring
\* round(num/den, 0) on exact values: to nearest, ties to even.
RoundHalfEven(num, den) ==
    LET q == num \div den
        r == num % den
    IN  IF 2 * r < den THEN q
        ELSE IF 2 * r > den THEN q + 1
        ELSE IF q % 2 = 0 THEN q ELSE q + 1

\* Lines 112, 116: round(failures / attempts if attempts else 0.0, 4)
TestInstability(failures, attempts) ==
    IF attempts = 0 THEN 0 ELSE RoundHalfEven(failures * Scale, attempts)

\* Lines 113-118: the per_test entry of one test
TestStatsSwapped(attempts, failures) ==
    [attempts |-> failures, failures |-> attempts,
     instability |-> TestInstability(failures, attempts)]
TestStats(attempts, failures) ==
    [attempts |-> attempts, failures |-> failures,
     instability |-> TestInstability(failures, attempts)]

RECURSIVE SumInstability(_, _)
SumInstability(tests, per_test) ==
    IF tests = {} THEN 0
    ELSE LET t == CHOOSE x \in tests : TRUE
         IN  per_test[t].instability + SumInstability(tests \ {t}, per_test)

\* Line 139
AllCleanAny(related, per_test) == \E t \in related : per_test[t].failures = 0
AllClean(related, per_test) == \A t \in related : per_test[t].failures = 0

\* Lines 140, 148: round(sum(instability of related) / len(related), 4)
PatternInstability(related, per_test) ==
    RoundHalfEven(SumInstability(related, per_test), Cardinality(related))

RECURSIVE SumSeq(_)
SumSeq(s) == IF s = <<>> THEN 0 ELSE Head(s) + SumSeq(Tail(s))

\* s[-n:] for n > 0
LastN(s, n) == IF Len(s) > n THEN SubSeq(s, Len(s) - n + 1, Len(s)) ELSE s

\* Lines 150-151: max(args.history_windows, 10)
HistoryCap(a) == Max(a.history_windows, HistoryFloor)

\* Lines 150-151: keep the most recent `cap` entries
TruncateFirst(hist, cap) == IF Len(hist) > cap THEN SubSeq(hist, 1, cap) ELSE hist
Truncate(hist, cap) == IF Len(hist) > cap THEN LastN(hist, cap) ELSE hist

\* Line 155: the entries avg_recent is taken over
WindowWhole(hist, history_windows) == hist
WindowHist(hist, history_windows) ==
    IF history_windows > 0 THEN LastN(hist, history_windows) ELSE hist

\* Lines 156, 158: avg_recent < args.demote_threshold, with avg_recent the
\* mean of the window (0.0 for an empty window); threshold in units of 1/Scale
AvgBelow(window, threshold) ==
    IF window = <<>> THEN 0 < threshold
    ELSE SumSeq(window) < threshold * Len(window)

\* Line 157: round(avg_recent, 4)
AvgRecent(window) ==
    IF window = <<>> THEN 0 ELSE RoundHalfEven(SumSeq(window), Len(window))

\* Lines 142-145
StreakKept(all_clean, old) == IF all_clean THEN old + 1 ELSE old
NewStreak(all_clean, old) == IF all_clean THEN old + 1 ELSE 0

\* Line 158: the demotion condition
DemoteEither(streak, window, a) ==
    streak >= a.clean_threshold \/ AvgBelow(window, a.demote_threshold)
DemoteStrict(streak, window, a) ==
    streak > a.clean_threshold /\ AvgBelow(window, a.demote_threshold)
Demote(streak, window, a) ==
    streak >= a.clean_threshold /\ AvgBelow(window, a.demote_threshold)

\* Line 141: state.get(pat, {'clean_streak':0, 'instability_history': []})
DefaultRec == [clean_streak |-> 0, instability_history |-> <<>>]
StateGet(state, pat) == IF pat \in DOMAIN state THEN state[pat] ELSE DefaultRec

\* state[pat] = rec
StatePut(state, pat, rec) ==
    [q \in DOMAIN state \cup {pat} |-> IF q = pat THEN rec ELSE state[q]]

\* Lines 141-153: the record of a pattern after one pass of the loop body
UpdatedRec(rec, related, per_test, a) ==
    [clean_streak |-> NewStreak(AllClean(related, per_test), rec.clean_streak),
     instability_history |->
        Truncate(Append(rec.instability_history,
                        PatternInstability(related, per_test)),
                 HistoryCap(a))]

\* ---------------------------------------------------------------- artifacts
\* Lines 162-163: a line of the flaky file survives the rewrite when it is
\* not blank and its stripped text is not a removed pattern.
KeepLine(line, removed) ==
    Strip(line) # <<>> /\ Strip(line) \notin Range(removed)

\* Line 163 followed by line 41 of the next run: '\n'.join(lines)+'\n' is
\* "\n" for an empty list, which splitlines() reads back as one blank line.
WrittenLines(lines) == IF lines = <<>> THEN << <<>> >> ELSE lines

\* Lines 162-163: the lines of the flaky file after the rewrite
RewritePatterns(lines, removed) ==
    WrittenLines(SelectSeq(LoadPatterns(lines),
                           LAMBDA pat : pat \notin Range(removed)))
RewriteLines(lines, removed) ==
    WrittenLines(SelectSeq(lines, LAMBDA l : KeepLine(l, removed)))

\* Lines 181-192: spark(values) as the indices into the glyph ramp;
\* int(x + 0.5) of a non-negative x is floor(x + 1/2).
RECURSIVE SeqMax(_)
SeqMax(s) == IF Len(s) = 1 THEN s[1] ELSE Max(Head(s), SeqMax(Tail(s)))
RECURSIVE SeqMin(_)
SeqMin(s) == IF Len(s) = 1 THEN s[1] ELSE Min(Head(s), SeqMin(Tail(s)))

SparkAbsolute(values) ==
    [n \in 1..Len(values) |->
        (2 * values[n] * (GlyphLevels - 1) + Scale) \div (2 * Scale)]
Spark(values) ==
    IF values = <<>> THEN <<>>
    ELSE LET lo == SeqMin(values)
             hi == SeqMax(values)
         IN  [n \in 1..Len(values) |->
                IF hi = lo THEN 0
                ELSE (2 * (values[n] - lo) * (GlyphLevels - 1) + (hi - lo))
                        \div (2 * (hi - lo))]

\* ------------------------------------------------------------ state file
\* Lines 125, 164: the state file is JSON text.  json.dumps writes an int as
\* its decimal digits and a float as repr() does: the integer part, a point
\* and the decimals without trailing zeros (at least one).  Pattern keys
\* hold no character JSON escapes.
DigitChars == <<"0", "1", "2", "3", "4", "5", "6", "7", "8", "9">>
Digit(n) == DigitChars[n + 1]
DigitValue(c) == CHOOSE n \in 0..9 : DigitChars[n + 1] = c

\* str(n) for an int n >= 0
RECURSIVE FormatInt(_)
FormatInt(n) ==
    IF n < 10 THEN <<Digit(n)>> ELSE Append(FormatInt(n \div 10), Digit(n % 10))

\* int(text) for a text of digits
RECURSIVE ParseInt(_)
ParseInt(text) ==
    IF text = <<>> THEN 0
    ELSE 10 * ParseInt(SubSeq(text, 1, Len(text) - 1))
            + DigitValue(text[Len(text)])

\* The last n decimal digits of frac, most significant first.
RECURSIVE FracText(_, _)
FracText(frac, n) ==
    IF n = 0 THEN <<>>
    ELSE Append(FracText(frac \div 10, n - 1), Digit(frac % 10))

RECURSIVE DropZeros(_)
DropZeros(text) ==
    IF Len(text) > 1 /\ text[Len(text)] = "0"
    THEN DropZeros(SubSeq(text, 1, Len(text) - 1)) ELSE text

\* repr(x) of a float x = v / Scale, 0 <= x
FormatFloatShort(v) ==
    FormatInt(v \div Scale) \o <<".">>
        \o SubSeq(FracText(v % Scale, FracDigits), 1, 1)
FormatFloat(v) ==
    FormatInt(v \div Scale) \o <<".">>
        \o DropZeros(FracText(v % Scale, FracDigits))

RECURSIVE PadZeros(_, _)
PadZeros(text, n) == IF Len(text) >= n THEN text ELSE PadZeros(Append(text, "0"), n)

\* float(text), in units of 1/Scale
ParseFloat(text) ==
    LET dot == CHOOSE i \in 1..Len(text) : text[i] = "."
    IN  ParseInt(SubSeq(text, 1, dot - 1)) * Scale
          + ParseInt(PadZeros(SubSeq(text, dot + 1, Len(text)), FracDigits))

\* Line 164: json.dumps(state, indent=2)
JsonDumps(state) ==
    [pat \in DOMAIN state |->
        [clean_streak |-> FormatInt(state[pat].clean_streak),
         instability_history |->
            [n \in 1..Len(state[pat].instability_history) |->
                FormatFloat(state[pat].instability_history[n])]]]

\* Line 125: json.loads(text)
JsonLoads(doc) ==
    [pat \in DOMAIN doc |->
        [clean_streak |-> ParseInt(doc[pat].clean_streak),
         instability_history |->
            [n \in 1..Len(doc[pat].instability_history) |->
                ParseFloat(doc[pat].instability_history[n])]]]

\* Lines 38, 53, 95: the report of a skipped run
SkipReportBare(reason, patterns) ==
    [exists |-> TRUE, skipped |-> TRUE, reason |-> reason,
     patterns |-> <<>>, selected_tests |-> <<>>, per_test |-> <<>>,
     aggregate_failures |-> 0, removed_patterns |-> <<>>,
     pattern_status |-> <<>>]
SkipReport(reason, patterns) ==
    [exists |-> TRUE, skipped |-> TRUE, reason |-> reason,
     patterns |-> patterns, selected_tests |-> <<>>, per_test |-> <<>>,
     aggregate_failures |-> 0, removed_patterns |-> <<>>,
     pattern_status |-> <<>>]

\* Lines 165-177: the report of a run that executed tests
FullReport(r) ==
    [exists |-> TRUE, skipped |-> FALSE, reason |-> "",
     patterns |-> r.patterns, selected_tests |-> r.selected,
     per_test |-> r.per_test, aggregate_failures |-> r.aggregate_failures,
     removed_patterns |-> r.removed, pattern_status |-> r.pattern_status]

NoReport ==
    [exists |-> FALSE, skipped |-> FALSE, reason |-> "",
     patterns |-> <<>>, selected_tests |-> <<>>, per_test |-> <<>>,
     aggregate_failures |-> 0, removed_patterns |-> <<>>,
     pattern_status |-> <<>>]

\* ------------------------------------------------------------ model inputs
\* parse_args(): repeat, clean_threshold, demote_threshold (in units of
\* 1/Scale), history_windows, and whether a PR comment is asked for
\* (--comment-persist-failures, --pr-number and GH_TOKEN all present).
Args(r, ct, dt, hw, n) ==
    [repeat |-> r, clean_threshold |-> ct, demote_threshold |-> dt,
     history_windows |-> hw, notify |-> n]

Configs ==
    { Args(2, 2, 500, 2, FALSE),    \* the defaults, scaled down
      Args(1, 1, 500, 1, TRUE),
      Args(1, 1, 500, 2, TRUE),     \* window longer than the streak needed
      Args(1, 2, 6000, 2, TRUE),    \* lenient average
      Args(1, 1, 6000, 0, FALSE),   \* history_windows = 0: whole history
      Args(1, 0, 6000, 2, FALSE),   \* clean_threshold = 0
      Args(1, 1, 0, 1, FALSE),      \* demote_threshold = 0
      Args(0, 1, 500, 1, TRUE) }    \* repeat = 0: no attempt is executed

LongConfigs == { Args(1, 2, 500, 2, FALSE), Args(1, 1, 0, 1, FALSE) }

\* Names of the tests the build directory can define (ADD_TEST entries).
T_ab == <<"a", "b">>
T_aplusb == <<"a", "+", "b">>
T_aparenb == <<"a", "(", "b">>

Inventories ==
    { {}, {T_ab}, {T_aplusb}, {T_ab, T_aparenb} }

\* Lines of the flaky file.
L_a == <<"a">>
L_ab == <<"a", "b">>
L_ab_sp == <<" ", "a", "b">>
L_ab_cc == <<"a", "b", ".", "c", "c">>
L_ab_cpp == <<"a", "b", ".", "c", "p", "p">>
L_aplusb == <<"a", "+", "b">>
L_aparen == <<"a", "(">>
L_comment == <<"#", "a">>
L_blank == <<>>

File(lines) == [exists |-> TRUE, lines |-> lines]
NoFile == [exists |-> FALSE, lines |-> <<>>]

FlakyFiles ==
    { NoFile,
      File(<<L_comment>>),
      File(<<L_ab>>),
      File(<<L_ab_cc>>),
      File(<<L_ab_cc, L_ab_cpp>>),
      File(<<L_aplusb>>),
      File(<<L_a>>),
      File(<<L_comment, L_ab_sp, L_blank, L_aparen, L_aplusb>>) }

LongFiles == { File(<<L_ab>>), File(<<L_ab_cc, L_ab_cpp>>) }
LongInventories == { {T_ab} }

\* Inputs of SpecResolve: patterns that compile and match, compile and match
\* nothing, or do not compile, over every inventory of at most two names.
L_plusb == <<"+", "b">>
L_adotb == <<"a", ".", "b">>
L_x == <<"x">>

ResolveFiles ==
    { File(<<L_aplusb>>),
      File(<<L_plusb>>),
      File(<<L_aplusb, L_plusb>>),
      File(<<L_plusb, L_aplusb>>),
      File(<<L_adotb>>),
      File(<<L_aparen, L_x>>),
      File(<<L_ab_cc, L_adotb>>),
      File(<<L_x>>) }

ResolveInventories ==
    {inv \in SUBSET {T_ab, T_aplusb, T_aparenb} : Cardinality(inv) <= 2}

ResolveConfigs == { Args(1, 1, 500, 1, TRUE) }

\* Inputs of SpecConcurrent: one pattern over one test, for two invocations
\* that may overlap.
ConcurrentFiles == { File(<<L_ab>>) }
ConcurrentInventories == { {}, {T_ab} }
ConcurrentConfigs == { Args(1, 2, 500, 2, FALSE), Args(1, 1, 500, 1, FALSE) }

\* Inputs of SpecReadd: one pattern over one test, demoted and added again.
ReaddFiles == { File(<<L_ab>>) }
ReaddInventories == { {T_ab} }
ReaddConfigs == { Args(1, 2, 500, 2, FALSE), Args(2, 2, 500, 1, FALSE) }
ReaddLines == { L_ab }

\* Inputs of SpecRound: one pattern over one or two tests, with a repeat
\* count of 1 and one beyond what four decimals resolve.
RoundFiles == { File(<<L_a>>) }
RoundInventories == { {}, {T_ab}, {T_ab, T_aparenb} }
RoundConfigs ==
    { Args(1, 2, 500, 2, FALSE), Args(RoundRepeat, 1, 500, 1, FALSE) }

\* Numbers of failing attempts among `repeat` attempts of one test.
FailureCounts(repeat) == {f \in {0, 1, repeat} : f <= repeat}

\* proc.returncode of one ctest attempt: 0 passed, 1 failed
ReturnCodes == {0, 1}

\* Invocations of the script; Spec runs them one at a time.
ProcIds == {1, 2}
Sequential == {1}

\* ------------------------------------------------------------------- state
VARIABLES
    flakyFile,    \* args.flaky_file: [exists, lines]
    stateFile,    \* args.state_file: [exists, data], data: the JSON document
    reportFile,   \* args.report: the last report written
    logFile,      \* flaky_quarantine_output.txt: the attempt headers
    sparkFile,    \* args.sparkline_file: [exists, data], data: pattern -> glyphs
    comments,     \* the PR comment posted last (a sequence of at most one)
    args,         \* the command line (the same in every invocation)
    builds,       \* the inventories the build directory may hold
    remaining,    \* invocations still to be started in this behaviour
    run,          \* per invocation: position in main() and its locals
    cleanRuns     \* observer: pattern -> consecutive invocations in which
                  \* it had related tests and all of them were clean

vars ==
    <<flakyFile, stateFile, reportFile, logFile, sparkFile, comments, args,
      builds, remaining, run, cleanRuns>>

files == <<flakyFile, stateFile, reportFile, logFile, sparkFile, comments>>

\* The locals of main() before its first statement.
IdleRun ==
    [pc |-> "idle", patterns |-> <<>>, discovered |-> {}, selected |-> <<>>,
     ti |-> 1, i |-> 0, attempts |-> 0, failures |-> 0, per_test |-> <<>>,
     aggregate_failures |-> 0, raw_log_parts |-> <<>>, state |-> <<>>,
     removed |-> <<>>, pattern_status |-> <<>>, k |-> 1,
     report |-> NoReport, exit_status |-> -1,
     returncode |-> -1,    \* proc.returncode of the attempt run last
     written |-> <<>>,     \* observer: the artifacts written so far, in order
     loaded |-> <<>>]      \* observer: the states read from the state file

NoData == [exists |-> FALSE, data |-> <<>>]

Init ==
    /\ flakyFile \in FlakyFiles
    /\ stateFile = NoData
    /\ reportFile = NoReport
    /\ logFile = <<>>
    /\ sparkFile = NoData
    /\ comments = <<>>
    /\ args \in Configs
    /\ builds = Inventories
    /\ remaining = MaxInvocations
    /\ run = [p \in ProcIds |-> IdleRun]
    /\ cleanRuns = <<>>

InitLong ==
    /\ flakyFile \in LongFiles
    /\ stateFile = NoData
    /\ reportFile = NoReport
    /\ logFile = <<>>
    /\ sparkFile = NoData
    /\ comments = <<>>
    /\ args \in LongConfigs
    /\ builds = LongInventories
    /\ remaining = MaxLongInvocations
    /\ run = [p \in ProcIds |-> IdleRun]
    /\ cleanRuns = <<>>

InitConcurrent ==
    /\ flakyFile \in ConcurrentFiles
    /\ stateFile = NoData
    /\ reportFile = NoReport
    /\ logFile = <<>>
    /\ sparkFile = NoData
    /\ comments = <<>>
    /\ args \in ConcurrentConfigs
    /\ builds = ConcurrentInventories
    /\ remaining = MaxConcurrentInvocations
    /\ run = [p \in ProcIds |-> IdleRun]
    /\ cleanRuns = <<>>

InitReadd ==
    /\ flakyFile \in ReaddFiles
    /\ stateFile = NoData
    /\ reportFile = NoReport
    /\ logFile = <<>>
    /\ sparkFile = NoData
    /\ comments = <<>>
    /\ args \in ReaddConfigs
    /\ builds = ReaddInventories
    /\ remaining = MaxReaddInvocations
    /\ run = [p \in ProcIds |-> IdleRun]
    /\ cleanRuns = <<>>

InitResolve ==
    /\ flakyFile \in ResolveFiles
    /\ stateFile = NoData
    /\ reportFile = NoReport
    /\ logFile = <<>>
    /\ sparkFile = NoData
    /\ comments = <<>>
    /\ args \in ResolveConfigs
    /\ builds = ResolveInventories
    /\ remaining = MaxResolveInvocations
    /\ run = [p \in ProcIds |-> IdleRun]
    /\ cleanRuns = <<>>

\* ----------------------------------------------------------------- actions
\* Lines 33-54: start of main(): read the flaky file into `patterns`.
LoadFlaky(p) ==
    /\ run[p].pc \in {"idle", "done"}
    /\ remaining > 0
    /\ remaining' = remaining - 1
    /\ LET pats == LoadPatterns(flakyFile.lines)
       IN  /\ run' = [run EXCEPT ![p] =
                IF ~flakyFile.exists
                THEN [IdleRun EXCEPT !.pc = "write_skip",
                                     !.report = SkipReport("no file", <<>>)]
                ELSE IF pats = <<>>
                THEN [IdleRun EXCEPT !.pc = "write_skip",
                                     !.report = SkipReport("empty patterns", <<>>)]
                ELSE [IdleRun EXCEPT !.pc = "resolve", !.patterns = pats]]
           /\ cleanRuns' =
                IF flakyFile.exists /\ pats # <<>> THEN cleanRuns ELSE <<>>
    /\ UNCHANGED <<files, args, builds>>

\* Lines 55-97: discover the test names and map the patterns to them.
ResolveTests(p) ==
    /\ run[p].pc = "resolve"
    /\ \E inv \in builds :
          LET sel == ResolveSelected(run[p].patterns, inv)
          IN  /\ run' = [run EXCEPT ![p] =
                   IF sel = <<>>
                   THEN [@ EXCEPT !.pc = "write_skip", !.discovered = inv,
                                  !.report = SkipReport("no test names resolved",
                                                        run[p].patterns)]
                   ELSE [@ EXCEPT !.pc = "run", !.discovered = inv,
                                  !.selected = sel]]
              /\ cleanRuns' = IF sel = <<>> THEN <<>> ELSE cleanRuns
    /\ UNCHANGED <<files, args, builds, remaining>>

\* Lines 38, 53, 95: write the report of a skipped run and return 0.
WriteSkipReport(p) ==
    /\ run[p].pc = "write_skip"
    /\ reportFile' = run[p].report
    /\ run' = [run EXCEPT ![p].pc = "done", ![p].exit_status = 0,
                           ![p].written = Append(@, "report")]
    /\ UNCHANGED <<flakyFile, stateFile, logFile, sparkFile, comments, args,
                   builds, remaining, cleanRuns>>

\* Lines 104-111: one ctest attempt of the current test.
RunAttempt(p) ==
    /\ run[p].pc = "run"
    /\ run[p].i < args.repeat
    /\ \E rc \in ReturnCodes :
          run' = [run EXCEPT ![p] =
             [@ EXCEPT !.i = @ + 1,
                       !.attempts = @ + 1,
                       !.returncode = rc,
                       !.failures = IF rc # 0 THEN @ + 1 ELSE @,
                       !.raw_log_parts =
                           Append(@, [attempt |-> run[p].i + 1,
                                      name |-> run[p].selected[run[p].ti]])]]
    /\ UNCHANGED <<files, args, builds, remaining, cleanRuns>>

\* Lines 101-103, 112-119: the attempts of the current test are over: record
\* its stats and go to the next test, or leave the loop.
FinishTestFlush(p) ==
    /\ run[p].pc = "run"
    /\ run[p].i >= args.repeat
    /\ LET r == run[p]
           name == r.selected[r.ti]
           stats == TestStats(r.attempts, r.failures)
       IN  run' = [run EXCEPT ![p] =
              [@ EXCEPT !.per_test =
                            [t \in DOMAIN r.per_test \cup {name} |->
                                IF t = name THEN stats ELSE r.per_test[t]],
                        !.aggregate_failures = @ + r.failures,
                        !.ti = @ + 1, !.i = 0, !.attempts = 0, !.failures = 0,
                        !.returncode = -1,
                        !.written = Append(@, "log"),
                        !.pc = IF r.ti = Len(r.selected)
                               THEN "load_state" ELSE "run"]]
    /\ logFile' = run[p].raw_log_parts
    /\ UNCHANGED <<flakyFile, stateFile, reportFile, sparkFile, comments, args,
                   builds, remaining, cleanRuns>>
FinishTest(p) ==
    /\ run[p].pc = "run"
    /\ run[p].i >= args.repeat
    /\ LET r == run[p]
           name == r.selected[r.ti]
           stats == TestStats(r.attempts, r.failures)
       IN  run' = [run EXCEPT ![p] =
              [@ EXCEPT !.per_test =
                            [t \in DOMAIN r.per_test \cup {name} |->
                                IF t = name THEN stats ELSE r.per_test[t]],
                        !.aggregate_failures = @ + r.failures,
                        !.ti = @ + 1, !.i = 0, !.attempts = 0, !.failures = 0,
                        !.returncode = -1,
                        !.pc = IF r.ti = Len(r.selected)
                               THEN "load_state" ELSE "run"]]
    /\ UNCHANGED <<files, args, builds, remaining, cleanRuns>>

\* Lines 101-119 for one test, as one step: all `repeat` attempts of the
\* current test (args.repeat >= 1), of which some number failed, and its
\* stats.
RunAllAttempts(p) ==
    /\ run[p].pc = "run"
    /\ args.repeat >= 1
    /\ \E f \in FailureCounts(args.repeat) :
          LET r == run[p]
              name == r.selected[r.ti]
              stats == TestStats(args.repeat, f)
          IN  run' = [run EXCEPT ![p] =
                 [@ EXCEPT !.per_test =
                               [t \in DOMAIN r.per_test \cup {name} |->
                                   IF t = name THEN stats ELSE r.per_test[t]],
                           !.aggregate_failures = @ + f,
                           !.raw_log_parts =
                               @ \o [n \in 1..args.repeat |->
                                        [attempt |-> n, name |-> name]],
                           !.ti = @ + 1, !.i = 0, !.attempts = 0, !.failures = 0,
                           !.returncode = -1,
                           !.pc = IF r.ti = Len(r.selected)
                                  THEN "load_state" ELSE "run"]]
    /\ UNCHANGED <<files, args, builds, remaining, cleanRuns>>

\* The observer's count after this invocation's scoring.
CleanRunsAfter(r, old) ==
    LET clean == {pat \in Range(r.patterns) :
                     /\ Related(pat, r.selected) # {}
                     /\ AllClean(Related(pat, r.selected), r.per_test)}
    IN  [pat \in clean |-> IF pat \in DOMAIN old THEN old[pat] + 1 ELSE 1]

\* Lines 121-130: load the persisted state.
LoadState(p) ==
    /\ run[p].pc = "load_state"
    /\ run' = [run EXCEPT ![p] =
          [@ EXCEPT !.state = IF stateFile.exists
                              THEN JsonLoads(stateFile.data) ELSE <<>>,
                    !.loaded = Append(@, IF stateFile.exists
                                         THEN JsonLoads(stateFile.data)
                                         ELSE <<>>),
                    !.removed = <<>>, !.pattern_status = <<>>, !.k = 1,
                    !.pc = "patterns"]]
    /\ cleanRuns' = CleanRunsAfter(run[p], cleanRuns)
    /\ UNCHANGED <<files, args, builds, remaining>>

\* Lines 132-159: the body of the pattern loop for one pattern: the new
\* state, pattern_status and removed.
PatternPassNoSkip(r, pat, a) ==
    LET related == Related(pat, r.selected)
        rec == IF related = {} THEN DefaultRec
               ELSE UpdatedRec(StateGet(r.state, pat), related, r.per_test, a)
        window == WindowHist(rec.instability_history, a.history_windows)
    IN  [state |-> StatePut(r.state, pat, rec),
         pattern_status |-> r.pattern_status,
         removed |-> r.removed]
PatternPass(r, pat, a) ==
    LET related == Related(pat, r.selected)
        rec == UpdatedRec(StateGet(r.state, pat), related, r.per_test, a)
        window == WindowHist(rec.instability_history, a.history_windows)
    IN  IF related = {}
        THEN [state |-> r.state, pattern_status |-> r.pattern_status,
              removed |-> r.removed]
        ELSE [state |-> StatePut(r.state, pat, rec),
              pattern_status |->
                  StatePut(r.pattern_status, pat,
                           [clean_streak |-> rec.clean_streak,
                            avg_recent_instability |-> AvgRecent(window)]),
              removed |->
                  IF Demote(rec.clean_streak, window, a)
                  THEN Append(r.removed, pat) ELSE r.removed]

\* Lines 131-159: one iteration of `for pat in patterns`.
PatternStepSaving(p) ==
    /\ run[p].pc = "patterns"
    /\ LET r == run[p]
           out == PatternPass(r, r.patterns[r.k], args)
       IN  /\ run' = [run EXCEPT ![p] =
                [@ EXCEPT !.state = out.state,
                          !.pattern_status = out.pattern_status,
                          !.removed = out.removed,
                          !.k = @ + 1,
                          !.written = Append(@, "state"),
                          !.pc = IF r.k = Len(r.patterns)
                                 THEN "write_flaky" ELSE "patterns"]]
           /\ stateFile' = [exists |-> TRUE, data |-> JsonDumps(out.state)]
    /\ UNCHANGED <<flakyFile, reportFile, logFile, sparkFile, comments, args,
                   builds, remaining, cleanRuns>>
PatternStep(p) ==
    /\ run[p].pc = "patterns"
    /\ LET r == run[p]
           out == PatternPass(r, r.patterns[r.k], args)
       IN  run' = [run EXCEPT ![p] =
              [@ EXCEPT !.state = out.state,
                        !.pattern_status = out.pattern_status,
                        !.removed = out.removed,
                        !.k = @ + 1,
                        !.pc = IF r.k = Len(r.patterns)
                               THEN "write_flaky" ELSE "patterns"]]
    /\ UNCHANGED <<files, args, builds, remaining, cleanRuns>>

\* Lines 160-163: rewrite the flaky file when a pattern was removed.  The
\* file is read again here; read_text raises when it is gone.
UpdateFlakyFile(p) ==
    /\ run[p].pc = "write_flaky"
    /\ IF run[p].removed = <<>>
       THEN /\ run' = [run EXCEPT ![p].pc = "write_state"]
            /\ UNCHANGED flakyFile
       ELSE IF flakyFile.exists
       THEN /\ flakyFile' = File(RewriteLines(flakyFile.lines, run[p].removed))
            /\ run' = [run EXCEPT ![p].pc = "write_state",
                                   ![p].written = Append(@, "flaky")]
       ELSE /\ run' = [run EXCEPT ![p].pc = "done", ![p].exit_status = 1]
            /\ UNCHANGED flakyFile
    /\ UNCHANGED <<stateFile, reportFile, logFile, sparkFile, comments, args,
                   builds, remaining, cleanRuns>>

\* Line 164: state_path.write_text(json.dumps(state))
WriteStateFresh(p) ==
    /\ run[p].pc = "write_state"
    /\ LET r == run[p]
           now == IF stateFile.exists THEN JsonLoads(stateFile.data) ELSE <<>>
           fresh == [pat \in DOMAIN r.state \cup DOMAIN now |->
                       IF pat \in DOMAIN r.pattern_status
                       THEN UpdatedRec(StateGet(now, pat),
                                       Related(pat, r.selected), r.per_test,
                                       args)
                       ELSE StateGet(now, pat)]
       IN  stateFile' = [exists |-> TRUE, data |-> JsonDumps(fresh)]
    /\ run' = [run EXCEPT ![p].pc = "write_report",
                           ![p].written = Append(@, "state")]
    /\ UNCHANGED <<flakyFile, reportFile, logFile, sparkFile, comments, args,
                   builds, remaining, cleanRuns>>
WriteState(p) ==
    /\ run[p].pc = "write_state"
    /\ stateFile' = [exists |-> TRUE, data |-> JsonDumps(run[p].state)]
    /\ run' = [run EXCEPT ![p].pc = "write_report",
                           ![p].written = Append(@, "state")]
    /\ UNCHANGED <<flakyFile, reportFile, logFile, sparkFile, comments, args,
                   builds, remaining, cleanRuns>>

\* Lines 165-178
WriteReport(p) ==
    /\ run[p].pc = "write_report"
    /\ reportFile' = FullReport(run[p])
    /\ run' = [run EXCEPT ![p].pc = "write_log",
                           ![p].written = Append(@, "report")]
    /\ UNCHANGED <<flakyFile, stateFile, logFile, sparkFile, comments, args,
                   builds, remaining, cleanRuns>>

\* Line 179
WriteLog(p) ==
    /\ run[p].pc = "write_log"
    /\ logFile' = run[p].raw_log_parts
    /\ run' = [run EXCEPT ![p].pc = "write_spark",
                           ![p].written = Append(@, "log")]
    /\ UNCHANGED <<flakyFile, stateFile, reportFile, sparkFile, comments, args,
                   builds, remaining, cleanRuns>>

\* Lines 180-197: one sparkline per entry of the state
WriteSparkline(p) ==
    /\ run[p].pc = "write_spark"
    /\ sparkFile' =
          [exists |-> TRUE,
           data |-> [pat \in DOMAIN run[p].state |->
                        Spark(run[p].state[pat].instability_history)]]
    /\ run' = [run EXCEPT ![p].pc = "notify",
                           ![p].written = Append(@, "sparkline")]
    /\ UNCHANGED <<flakyFile, stateFile, reportFile, logFile, comments, args,
                   builds, remaining, cleanRuns>>

\* Line 203: the gate of the PR comment
ShouldNotifyAlways(r, a) == a.notify
ShouldNotify(r, a) == a.notify /\ r.aggregate_failures # 0

\* Lines 198-220: post the PR comment when asked for and failures remain; a
\* failure of the post (gh missing or failing) is swallowed.  return 0.
Notify(p) ==
    /\ run[p].pc = "notify"
    /\ \E posted \in BOOLEAN :
          LET sent == ShouldNotify(run[p], args) /\ posted
          IN  /\ comments' =
                   IF sent
                   THEN <<[aggregate_failures |-> run[p].aggregate_failures,
                           removed |-> run[p].removed]>>
                   ELSE comments
              /\ run' = [run EXCEPT ![p].pc = "done", ![p].exit_status = 0,
                                     ![p].written =
                                         IF sent THEN Append(@, "comment") ELSE @]
    /\ UNCHANGED <<flakyFile, stateFile, reportFile, logFile, sparkFile, args,
                   builds, remaining, cleanRuns>>

\* Lines 38, 53, 95, 163, 164, 178, 179, 197: write_text raises OSError (disk
\* full, read-only directory); nothing in main() catches it, the interpreter
\* prints the traceback and exits with status 1.
WritePoints ==
    {"write_skip", "write_state", "write_report", "write_log", "write_spark"}

WriteFails(p) ==
    /\ \/ run[p].pc \in WritePoints
       \/ run[p].pc = "write_flaky" /\ run[p].removed # <<>>
    /\ run' = [run EXCEPT ![p].pc = "done", ![p].exit_status = 1]
    /\ UNCHANGED <<files, args, builds, remaining, cleanRuns>>

\* ------------------------------------------------------------ specification
Step(p) ==
    \/ LoadFlaky(p)
    \/ ResolveTests(p)
    \/ WriteSkipReport(p)
    \/ RunAttempt(p)
    \/ FinishTest(p)
    \/ LoadState(p)
    \/ PatternStep(p)
    \/ UpdateFlakyFile(p)
    \/ WriteState(p)
    \/ WriteReport(p)
    \/ WriteLog(p)
    \/ WriteSparkline(p)
    \/ Notify(p)

\* Invocations run one at a time and every write succeeds.
Next == \E p \in Sequential : Step(p)

Spec == Init /\ [][Next]_vars

\* The same, for more invocations of one pattern over one test.
SpecLong == InitLong /\ [][Next]_vars

\* Spec for the configurations whose parameters are all positive, as the
\* defaults are (repeat 5, clean-threshold 3, demote-threshold 0.05,
\* history-windows 5).
InitUsual ==
    /\ Init
    /\ args.repeat >= 1
    /\ args.clean_threshold >= 1
    /\ args.history_windows >= 1
    /\ args.demote_threshold > 0

SpecUsual == InitUsual /\ [][Next]_vars

\* The same steps over the inputs that exercise the resolution of patterns.
SpecResolve == InitResolve /\ [][Next]_vars

\* The external producer of the flaky list: between two invocations it adds
\* the line of a pattern the file no longer yields (one that was demoted).
\* The observer starts counting the clean invocations of that pattern anew.
ReAdd ==
    /\ \A p \in ProcIds : run[p].pc \in {"idle", "done"}
    /\ flakyFile.exists
    /\ \E line \in ReaddLines :
          /\ PatternOfLine(Strip(line)) \notin Range(LoadPatterns(flakyFile.lines))
          /\ flakyFile' = File(Append(flakyFile.lines, line))
          /\ cleanRuns' = [pat \in DOMAIN cleanRuns \ {PatternOfLine(Strip(line))}
                              |-> cleanRuns[pat]]
    /\ UNCHANGED <<stateFile, reportFile, logFile, sparkFile, comments, args,
                   builds, remaining, run>>

\* Invocations one at a time, with the producer adding patterns in between.
NextReadd == Next \/ ReAdd

SpecReadd == InitReadd /\ [][NextReadd]_vars

\* Two invocations at a time: nothing in main() locks a file, so the steps of
\* two processes interleave freely.
NextConcurrent == \E p \in ProcIds : Step(p)

SpecConcurrent == InitConcurrent /\ [][NextConcurrent]_vars

\* Invocations run one at a time; a write may fail.
NextFault == \E p \in Sequential : Step(p) \/ WriteFails(p)

SpecFault == Init /\ [][NextFault]_vars

\* Invocations one at a time, the attempts of a test taken as one step, so
\* that a large --repeat is within reach.
InitRound ==
    /\ flakyFile \in RoundFiles
    /\ stateFile = NoData
    /\ reportFile = NoReport
    /\ logFile = <<>>
    /\ sparkFile = NoData
    /\ comments = <<>>
    /\ args \in RoundConfigs
    /\ builds = RoundInventories
    /\ remaining = MaxRoundInvocations
    /\ run = [p \in ProcIds |-> IdleRun]
    /\ cleanRuns = <<>>

StepRound(p) ==
    \/ LoadFlaky(p)
    \/ ResolveTests(p)
    \/ WriteSkipReport(p)
    \/ RunAllAttempts(p)
    \/ LoadState(p)
    \/ PatternStep(p)
    \/ UpdateFlakyFile(p)
    \/ WriteState(p)
    \/ WriteReport(p)
    \/ WriteLog(p)
    \/ WriteSparkline(p)
    \/ Notify(p)

NextRound == \E p \in Sequential : StepRound(p)

SpecRound == InitRound /\ [][NextRound]_vars

\* ------------------------------------------------------------------ claims
\* The persisted state as load would read it.  While one invocation runs
\* alone, this is the state it loaded until it writes the state itself.
Persisted == IF stateFile.exists THEN JsonLoads(stateFile.data) ELSE <<>>

\* Positions of main() after the pattern loop and before the state is written.
Scored(p) == run[p].pc \in {"write_flaky", "write_state"}

\* Positions of main() after the pattern loop.
AfterLoop(p) ==
    run[p].pc \in {"write_flaky", "write_state", "write_report", "write_log",
                   "write_spark", "notify"}

\* The last min(n, length) entries of a history.
LastMin(hist, n) ==
    SubSeq(hist, Len(hist) - Min(n, Len(hist)) + 1, Len(hist))

\* mean(entries) < threshold, the mean of no entries being 0 (line 156).
MeanBelow(entries, threshold) ==
    IF entries = <<>> THEN 0 < threshold
    ELSE SumSeq(entries) < threshold * Len(entries)

\* The entries avg_recent is the mean of: the last min(history_windows,
\* length) ones, and the whole history when history_windows is not positive.
RecentEntries(hist, n) == IF n >= 1 THEN LastMin(hist, n) ELSE hist

\* C1 as stated: in every pass of the pattern loop the pattern is appended to
\* removed_patterns if and only if it has a related test, its updated
\* clean_streak is >= clean_threshold and the mean of the last
\* min(history_windows, length) entries of its updated history is below
\* demote_threshold.
C1_RemovedIffLastMin ==
    [][\A p \in ProcIds :
          (run[p].pc = "patterns" /\ run'[p] # run[p]) =>
             LET r == run[p]
                 pat == r.patterns[r.k]
                 rec == StateGet(run'[p].state, pat)
             IN  run'[p].removed =
                    IF /\ Related(pat, r.selected) # {}
                       /\ rec.clean_streak >= args.clean_threshold
                       /\ MeanBelow(LastMin(rec.instability_history,
                                            args.history_windows),
                                    args.demote_threshold)
                    THEN Append(r.removed, pat)
                    ELSE r.removed]_vars

\* C1 amended: the same, with avg_recent the mean of the last
\* min(history_windows, length) entries when history_windows >= 1 and the
\* mean of the whole updated history when history_windows <= 0.
C1_RemovedIff ==
    [][\A p \in ProcIds :
          (run[p].pc = "patterns" /\ run'[p] # run[p]) =>
             LET r == run[p]
                 pat == r.patterns[r.k]
                 rec == StateGet(run'[p].state, pat)
             IN  run'[p].removed =
                    IF /\ Related(pat, r.selected) # {}
                       /\ rec.clean_streak >= args.clean_threshold
                       /\ MeanBelow(RecentEntries(rec.instability_history,
                                                  args.history_windows),
                                    args.demote_threshold)
                    THEN Append(r.removed, pat)
                    ELSE r.removed]_vars

\* C1 witness: a pattern is removed over the whole history
\* (history_windows = 0) although that history holds a failing invocation.
C1_Witness ==
    \E p \in ProcIds :
       /\ Scored(p)
       /\ args.history_windows = 0
       /\ \E pat \in Range(run[p].removed) :
             \E n \in DOMAIN run[p].state[pat].instability_history :
                run[p].state[pat].instability_history[n] > 0

\* C2: hysteresis step.  A pattern that ends an invocation with
\* clean_streak = clean_threshold - 1 is not removed in it; a pattern that was
\* persisted with clean_streak = clean_threshold - 1 and whose related tests
\* are all clean in the next invocation, with avg_recent below
\* demote_threshold, is removed in that invocation.
C2_HysteresisStep ==
    \A p \in ProcIds :
       Scored(p) =>
          \A pat \in DOMAIN run[p].pattern_status :
             LET rec == run[p].state[pat]
                 related == Related(pat, run[p].selected)
             IN  /\ rec.clean_streak = args.clean_threshold - 1
                       => pat \notin Range(run[p].removed)
                 /\ ( /\ pat \in DOMAIN Persisted
                      /\ Persisted[pat].clean_streak = args.clean_threshold - 1
                      /\ \A t \in related : run[p].per_test[t].failures = 0
                      /\ MeanBelow(RecentEntries(rec.instability_history,
                                                 args.history_windows),
                                   args.demote_threshold) )
                       => pat \in Range(run[p].removed)

\* C2 witness: a pattern persisted one short of a threshold of two is removed.
C2_Witness ==
    \E p \in ProcIds :
       /\ Scored(p)
       /\ args.clean_threshold >= 2
       /\ \E pat \in Range(run[p].removed) :
             /\ pat \in DOMAIN Persisted
             /\ Persisted[pat].clean_streak = args.clean_threshold - 1

\* C3: strict streak reset.  Whatever the persisted streak, a pattern with a
\* related test that failed an attempt ends the invocation with
\* clean_streak = 0 and, for clean_threshold >= 1, is not removed.
C3_StreakReset ==
    \A p \in ProcIds :
       AfterLoop(p) =>
          \A pat \in Range(run[p].patterns) :
             (\E t \in Related(pat, run[p].selected) :
                  run[p].per_test[t].failures > 0)
             => /\ pat \in DOMAIN run[p].state
                /\ run[p].state[pat].clean_streak = 0
                /\ args.clean_threshold >= 1
                      => pat \notin Range(run[p].removed)

\* C3 witness: an established streak is reset by a failing attempt.
C3_Witness ==
    \E p \in ProcIds :
       /\ Scored(p)
       /\ \E pat \in DOMAIN Persisted :
             /\ Persisted[pat].clean_streak >= 1
             /\ \E t \in Related(pat, run[p].selected) :
                   run[p].per_test[t].failures > 0
             /\ run[p].state[pat].clean_streak = 0

\* C4: eventual release.  With clean_threshold >= 1, history_windows >= 1 and
\* demote_threshold > 0, a pattern that has had related tests, all clean, in
\* max(clean_threshold, history_windows) or more consecutive invocations is
\* in removed_patterns of the invocation that completes the run of clean ones.
C4_EventualRelease ==
    ( /\ args.clean_threshold >= 1
      /\ args.history_windows >= 1
      /\ args.demote_threshold > 0 )
    => \A p \in ProcIds :
          AfterLoop(p) =>
             \A pat \in DOMAIN cleanRuns :
                cleanRuns[pat] >= Max(args.clean_threshold, args.history_windows)
                   => pat \in Range(run[p].removed)

\* C4 witness: a pattern whose history starts with a failing invocation is
\* removed in the max(clean_threshold, history_windows)-th clean invocation.
C4_Witness ==
    \E p \in ProcIds :
       /\ Scored(p)
       /\ args.clean_threshold >= 1 /\ args.history_windows >= 1
       /\ args.demote_threshold > 0
       /\ \E pat \in DOMAIN cleanRuns :
             /\ cleanRuns[pat] = Max(args.clean_threshold, args.history_windows)
             /\ cleanRuns[pat] >= 2
             /\ run[p].state[pat].instability_history[1] > 0
             /\ pat \in Range(run[p].removed)

\* C5: after the rewrite of the flaky file no line of it yields a removed
\* pattern.
C5_RemovedNotReloaded ==
    \A p \in ProcIds :
       run[p].pc = "write_state" =>
          \A pat \in Range(run[p].removed) :
             pat \notin Range(LoadPatterns(flakyFile.lines))

\* C6: one transition per pattern per invocation: a pattern with related
\* tests ends the invocation with clean_streak = old + 1 (all clean) or 0,
\* and with exactly one new entry appended to its (capped) history.
C6_OneTransition ==
    \A p \in ProcIds :
       Scored(p) =>
          \A pat \in Range(run[p].patterns) :
             LET related == Related(pat, run[p].selected)
                 old == StateGet(Persisted, pat)
                 new == run[p].state[pat]
                 full == Append(old.instability_history,
                                PatternInstability(related, run[p].per_test))
             IN  related # {} =>
                    /\ new.clean_streak =
                          IF \A t \in related : run[p].per_test[t].failures = 0
                          THEN old.clean_streak + 1 ELSE 0
                    /\ new.instability_history =
                          LastMin(full, Max(args.history_windows, HistoryFloor))

\* C7: every pattern that resolved to at least one test gets a transition,
\* scored over exactly the tests it contributed to the run set.
C7_ScoredOverResolved ==
    \A p \in ProcIds :
       Scored(p) =>
          \A pat \in Range(run[p].patterns) :
             Contribution(pat, run[p].discovered) # {} =>
                /\ pat \in DOMAIN run[p].pattern_status
                /\ Related(pat, run[p].selected) =
                      Contribution(pat, run[p].discovered)

\* Entry of a pattern in a state mapping: <<>> when absent, <<record>> else.
Entry(state, pat) == IF pat \in DOMAIN state THEN <<state[pat]>> ELSE <<>>

\* C8: when the state is written, every pattern of the list without related
\* tests and every persisted pattern that is not in the list keeps its
\* persisted record (or stays absent), has no pattern_status entry and is not
\* removed.
C8_UntouchedKept ==
    [][\A p \in ProcIds :
          (run[p].pc = "write_state" /\ run'[p].pc = "write_report") =>
             \A pat \in DOMAIN Persisted \cup Range(run[p].patterns) :
                ( \/ pat \notin Range(run[p].patterns)
                  \/ Related(pat, run[p].selected) = {} )
                => /\ Entry(JsonLoads(stateFile'.data), pat)
                         = Entry(Persisted, pat)
                   /\ pat \notin DOMAIN run[p].pattern_status
                   /\ pat \notin Range(run[p].removed)]_vars

\* C8 witness: the state has been written back with the record of a listed
\* pattern that had no related test and the record of a pattern that is no
\* longer listed, both with a history.
C8_Witness ==
    \E p \in ProcIds :
       /\ run[p].pc = "write_report"
       /\ \E pat \in Range(run[p].patterns) :
             /\ Related(pat, run[p].selected) = {}
             /\ pat \in DOMAIN Persisted
             /\ Persisted[pat].instability_history # <<>>
       /\ \E pat \in DOMAIN Persisted :
             /\ pat \notin Range(run[p].patterns)
             /\ Persisted[pat].instability_history # <<>>

\* C9: every persisted history has at most max(history_windows, 10) entries,
\* and each update yields the old history with the new value appended, minus
\* the oldest entries beyond that cap.
C9_BoundedFifo ==
    [][/\ \A pat \in DOMAIN stateFile'.data :
             Len(JsonLoads(stateFile'.data)[pat].instability_history)
                <= Max(args.history_windows, HistoryFloor)
       /\ \A p \in ProcIds :
             (run[p].pc = "patterns" /\ run'[p] # run[p]) =>
                LET r == run[p]
                    pat == r.patterns[r.k]
                    related == Related(pat, r.selected)
                    full == Append(StateGet(r.state, pat).instability_history,
                                   PatternInstability(related, r.per_test))
                    new == run'[p].state[pat].instability_history
                    dropped == Len(full) - Len(new)
                IN  related # {} =>
                       /\ dropped = Max(0, Len(full)
                                           - Max(args.history_windows, HistoryFloor))
                       /\ new = SubSeq(full, dropped + 1, Len(full))]_vars

\* C9 witness: a history persisted at the cap has been updated and is still
\* at the cap: its oldest entry was dropped.
C9_Witness ==
    \E p \in ProcIds :
       /\ Scored(p)
       /\ \E pat \in DOMAIN run[p].pattern_status :
             /\ pat \in DOMAIN Persisted
             /\ Len(Persisted[pat].instability_history)
                   = Max(args.history_windows, HistoryFloor)
             /\ Len(run[p].state[pat].instability_history)
                   = Max(args.history_windows, HistoryFloor)

\* C10: the exit status of every invocation is 0.
C10_AlwaysExitsZero ==
    \A p \in ProcIds : run[p].pc = "done" => run[p].exit_status = 0

\* No line of the flaky file is a pattern line.
NoUsablePattern ==
    \A n \in DOMAIN flakyFile.lines :
       \/ Strip(flakyFile.lines[n]) = <<>>
       \/ Head(Strip(flakyFile.lines[n])) = "#"

\* C11: configuration absence.  An invocation that finds no flaky file, no
\* usable pattern or no resolved test goes on to write a report with
\* skipped = true and the reason for it ("no test names resolved" together
\* with the patterns searched); it has run no attempt, it writes nothing but
\* the report, and the state file and the flaky file stay as they are.
C11_SkippedRun ==
    [][\A p \in ProcIds :
          /\ (run[p].pc \in {"idle", "done"} /\ run'[p] # run[p]) =>
                /\ ~flakyFile.exists =>
                      /\ run'[p].pc = "write_skip"
                      /\ run'[p].report.reason = "no file"
                /\ (flakyFile.exists /\ NoUsablePattern) =>
                      /\ run'[p].pc = "write_skip"
                      /\ run'[p].report.reason = "empty patterns"
          /\ (run[p].pc = "resolve" /\ run'[p] # run[p]
                 /\ run'[p].selected = <<>>) =>
                /\ run'[p].pc = "write_skip"
                /\ run'[p].report.reason = "no test names resolved"
                /\ run'[p].report.patterns = run[p].patterns
                /\ run[p].patterns # <<>>
          /\ (run'[p].pc = "write_skip" /\ run'[p] # run[p]) =>
                /\ flakyFile' = flakyFile /\ stateFile' = stateFile
                /\ run'[p].written = <<>>
          /\ (run[p].pc = "write_skip" /\ run'[p] # run[p]) =>
                /\ run'[p].pc = "done" /\ run'[p].exit_status = 0
                /\ reportFile'.exists /\ reportFile'.skipped
                /\ reportFile'.reason = run[p].report.reason
                /\ reportFile'.reason \in
                      {"no file", "empty patterns", "no test names resolved"}
                /\ reportFile'.patterns = run[p].report.patterns
                /\ run[p].raw_log_parts = <<>> /\ run[p].per_test = <<>>
                /\ run'[p].written = <<"report">>
                /\ flakyFile' = flakyFile /\ stateFile' = stateFile]_vars

\* C11 witness: an invocation that resolved no test has ended; its report
\* lists the patterns searched and the state of an earlier invocation is
\* still there.
C11_Witness ==
    \E p \in ProcIds :
       /\ run[p].pc = "done"
       /\ run[p].written = <<"report">>
       /\ reportFile.skipped
       /\ reportFile.reason = "no test names resolved"
       /\ reportFile.patterns # <<>>
       /\ Persisted # <<>>

\* Whether sequence a is b with some elements left out.
RECURSIVE IsSubseq(_, _)
IsSubseq(a, b) ==
    IF a = <<>> THEN TRUE
    ELSE IF b = <<>> THEN FALSE
    ELSE IF Head(a) = Head(b) THEN IsSubseq(Tail(a), Tail(b))
    ELSE IsSubseq(a, Tail(b))

\* Number of occurrences of x in a sequence.
Count(seq, x) == Cardinality({n \in DOMAIN seq : seq[n] = x})

\* The lines that are not blank.
NonBlank(lines) == SelectSeq(lines, LAMBDA l : Strip(l) # <<>>)

\* C12: the engine never adds to the quarantine list.  In every step the
\* non-blank lines of the flaky file afterwards are a subsequence of its lines
\* before; the file changes only in the rewrite of an invocation that demoted
\* a pattern; a non-blank line that is gone is a pattern line whose pattern is
\* in removed_patterns of that invocation; and an invocation that demoted
\* nothing does not write the file.
C12_NeverAdds ==
    [][/\ flakyFile'.exists = flakyFile.exists
       /\ IsSubseq(NonBlank(flakyFile'.lines), flakyFile.lines)
       /\ flakyFile' # flakyFile =>
             \E p \in ProcIds :
                /\ run[p].pc = "write_flaky" /\ run[p].removed # <<>>
                /\ run'[p] # run[p]
       /\ \A p \in ProcIds :
             /\ (run[p].pc = "write_flaky" /\ run'[p] # run[p]) =>
                   \A l \in Range(flakyFile.lines) :
                      ( /\ Strip(l) # <<>>
                        /\ Count(flakyFile'.lines, l) < Count(flakyFile.lines, l) )
                      => /\ IsPatternLine(l)
                         /\ PatternOfLine(Strip(l)) \in Range(run[p].removed)
             /\ "flaky" \in Range(run'[p].written) => run'[p].removed # <<>>]_vars

\* C12 witness: the file has been rewritten; the line of a demoted pattern is
\* gone and the line of another pattern is still there.
C12_Witness ==
    \E p \in ProcIds :
       /\ run[p].pc = "write_state"
       /\ "flaky" \in Range(run[p].written)
       /\ \E pat \in Range(run[p].removed) :
             pat \notin Range(LoadPatterns(flakyFile.lines))
       /\ \E pat \in Range(LoadPatterns(flakyFile.lines)) :
             pat \notin Range(run[p].removed)

\* C13: when the flaky file is rewritten, the lines of the original other
\* than those exactly equal to a removed pattern (so every comment line and
\* every blank line) are all in the new file, unchanged and in their order.
C13_RewriteKeepsOtherLines ==
    [][\A p \in ProcIds :
          (run[p].pc = "write_flaky" /\ flakyFile' # flakyFile) =>
             IsSubseq(SelectSeq(flakyFile.lines,
                                LAMBDA l : l \notin Range(run[p].removed)),
                      flakyFile'.lines)]_vars

\* Positions of main() from the attempt loop on.
Executing(p) ==
    run[p].pc \in {"run", "load_state", "patterns", "write_flaky",
                   "write_state", "write_report", "write_log", "write_spark",
                   "notify"}

\* The n-th attempt of an invocation that runs every test of `selected` in
\* turn, `repeat` times each.
AttemptAt(selected, repeat, n) ==
    [attempt |-> ((n - 1) % repeat) + 1,
     name |-> selected[((n - 1) \div repeat) + 1]]

\* C14: execution order.  The run set is in ascending order; the attempts
\* made so far are the first ones of the sequence "every test in that order,
\* attempts 1..repeat of it in a row", all of them once the loop is left; and
\* a step of the loop makes at most one attempt.
C14_AttemptOrder ==
    [][\A p \in ProcIds :
          LET r == run'[p]
          IN  /\ Executing(p)' =>
                 /\ \A n \in 1..(Len(r.selected) - 1) :
                       StrLess(r.selected[n], r.selected[n + 1])
                 /\ Len(r.raw_log_parts) =
                       IF r.pc = "run"
                       THEN (r.ti - 1) * args.repeat + r.i
                       ELSE Len(r.selected) * args.repeat
                 /\ \A n \in DOMAIN r.raw_log_parts :
                       r.raw_log_parts[n] = AttemptAt(r.selected, args.repeat, n)
              /\ (run[p].pc = "run" /\ r # run[p]) =>
                    \/ r.raw_log_parts = run[p].raw_log_parts
                    \/ /\ Len(r.raw_log_parts) = Len(run[p].raw_log_parts) + 1
                       /\ r.attempts = run[p].attempts + 1]_vars

\* C14 witness: two tests have been run twice each and the loop is left.
C14_Witness ==
    \E p \in ProcIds :
       /\ run[p].pc = "load_state"
       /\ Len(run[p].selected) = 2
       /\ args.repeat = 2
       /\ Len(run[p].raw_log_parts) = 4
       /\ run[p].raw_log_parts[2].name # run[p].raw_log_parts[3].name

\* The artifacts on disk.
Artifacts == <<flakyFile, stateFile, reportFile, logFile, sparkFile>>

\* C15: no artifact is persisted mid-run.  From resolution to the end of the
\* pattern loop an invocation has written nothing and its steps leave every
\* artifact as it is; when an invocation that ran tests writes an artifact,
\* every test of the run set has had all its attempts and has its stats.
C15_NoMidRunWrite ==
    [][\A p \in ProcIds :
          /\ run'[p].pc \in {"resolve", "run", "load_state", "patterns",
                              "write_flaky"}
                => run'[p].written = <<>>
          /\ ( /\ run[p].pc \in {"resolve", "run", "load_state", "patterns"}
               /\ run'[p] # run[p] )
                => Artifacts' = Artifacts
          /\ (run[p].selected # <<>> /\ run'[p].written # run[p].written) =>
                /\ Len(run[p].raw_log_parts)
                      = Len(run[p].selected) * args.repeat
                /\ DOMAIN run[p].per_test = Range(run[p].selected)
                /\ run[p].i = 0]_vars

\* C15 witness: an invocation that made four attempts has started to write.
C15_Witness ==
    \E p \in ProcIds :
       /\ run[p].pc = "write_report"
       /\ run[p].written = <<"state">>
       /\ Len(run[p].raw_log_parts) = 4

RECURSIVE SumFailures(_, _)
SumFailures(tests, per_test) ==
    IF tests = {} THEN 0
    ELSE LET t == CHOOSE x \in tests : TRUE
         IN  per_test[t].failures + SumFailures(tests \ {t}, per_test)

\* C16: per-test stats.  Every attempt adds one to the attempts of its test
\* and one to its failures exactly when it ended with a non-zero status; the
\* counters of a test start at zero and become its stats; once the loop is
\* left every test of the run set has attempts = repeat,
\* 0 <= failures <= attempts and an instability in [0, 1], and
\* aggregate_failures is the sum of the failures of the run set.
C16_StatsSound ==
    [][\A p \in ProcIds :
          LET r == run[p]
              q == run'[p]
          IN  /\ (r.pc = "run" /\ q.raw_log_parts # r.raw_log_parts) =>
                    /\ q.returncode \in ReturnCodes
                    /\ q.attempts = r.attempts + 1
                    /\ q.failures =
                          r.failures + (IF q.returncode # 0 THEN 1 ELSE 0)
                    /\ q.per_test = r.per_test
              /\ (r.pc = "run" /\ q.per_test # r.per_test) =>
                    /\ q.per_test[r.selected[r.ti]].attempts = r.attempts
                    /\ q.per_test[r.selected[r.ti]].failures = r.failures
                    /\ r.attempts = args.repeat
                    /\ q.attempts = 0 /\ q.failures = 0
                    /\ q.aggregate_failures = r.aggregate_failures + r.failures
              /\ (q.pc = "run" /\ q.i = 0) => (q.attempts = 0 /\ q.failures = 0)
              /\ AfterLoop(p)' =>
                    /\ DOMAIN q.per_test = Range(q.selected)
                    /\ \A t \in Range(q.selected) :
                          /\ q.per_test[t].attempts = args.repeat
                          /\ 0 <= q.per_test[t].failures
                          /\ q.per_test[t].failures <= q.per_test[t].attempts
                          /\ 0 <= q.per_test[t].instability
                          /\ q.per_test[t].instability <= Scale
                    /\ q.aggregate_failures =
                          SumFailures(Range(q.selected), q.per_test)]_vars

\* C16 witness: of two tests run twice each, one failed once and the other
\* twice.
C16_Witness ==
    \E p \in ProcIds :
       /\ AfterLoop(p)
       /\ run[p].aggregate_failures = 3
       /\ \E t \in Range(run[p].selected) :
             /\ run[p].per_test[t].failures = 1
             /\ run[p].per_test[t].attempts = 2
             /\ run[p].per_test[t].instability = Scale \div 2

\* The pattern list in another order.
Reordered(patterns, f) == [n \in DOMAIN patterns |-> patterns[f[n]]]

\* C17: the resolved run set.  Whatever the patterns and the inventory, the
\* run set holds only discovered names, holds none twice, is in ascending
\* order, and is what resolving the same patterns in any order against the
\* same inventory gives (nothing else, the persisted state included, has a
\* part in it).
C17_ResolvedSet ==
    [][\A p \in ProcIds :
          (run[p].pc = "resolve" /\ run'[p] # run[p]) =>
             LET sel == IF run'[p].pc = "run" THEN run'[p].selected ELSE <<>>
                 inv == run'[p].discovered
             IN  /\ inv \in builds
                 /\ run'[p].pc = "run" <=> sel # <<>>
                 /\ Range(sel) \subseteq inv
                 /\ Cardinality(Range(sel)) = Len(sel)
                 /\ \A n \in 1..(Len(sel) - 1) : StrLess(sel[n], sel[n + 1])
                 /\ \A f \in Permutations(DOMAIN run[p].patterns) :
                       ResolveSelected(Reordered(run[p].patterns, f), inv) = sel]_vars

\* C17 witness: two patterns have resolved to two tests, the first pattern to
\* the test that sorts last.
C17_Witness ==
    \E p \in ProcIds :
       /\ run[p].pc = "run"
       /\ Len(run[p].selected) = 2
       /\ Len(run[p].patterns) = 2
       /\ Contribution(run[p].patterns[1], run[p].discovered)
             = {run[p].selected[2]}
       /\ Contribution(run[p].patterns[2], run[p].discovered)
             = {run[p].selected[1]}

\* The names of the inventory a regular expression finds; none when the
\* pattern does not compile.
RegexNames(pat, inv) == {t \in inv : Compiles(pat) /\ Search(pat, t)}

\* The names of the inventory that contain the pattern as a substring.
SubstringNames(pat, inv) == {t \in inv : Contains(pat, t)}

\* C18: two-tier resolution.  The run set is the union over the patterns of:
\* the names the pattern finds as a regular expression when it compiles and
\* finds at least one, and otherwise the names that contain the pattern as a
\* substring.
C18_TwoTier ==
    [][\A p \in ProcIds :
          (run[p].pc = "resolve" /\ run'[p] # run[p]) =>
             LET inv == run'[p].discovered
                 tier(pat) == IF RegexNames(pat, inv) # {}
                              THEN RegexNames(pat, inv)
                              ELSE SubstringNames(pat, inv)
             IN  Range(run'[p].selected) =
                    UNION {tier(pat) : pat \in Range(run[p].patterns)}]_vars

\* C18 witness: the run set of a single pattern leaves out a discovered name
\* that contains the pattern as a substring, because its regular expression
\* found another name.
C18_Witness ==
    \E p \in ProcIds :
       /\ run[p].pc = "run"
       /\ Len(run[p].patterns) = 1
       /\ RegexNames(run[p].patterns[1], run[p].discovered) # {}
       /\ \E t \in run[p].discovered :
             /\ Contains(run[p].patterns[1], t)
             /\ t \notin Range(run[p].selected)

\* C19: state round-trip.  The state file changes only when an invocation
\* that ran tests writes its state; reading the file back then gives that
\* state, for every pattern the same clean_streak and the same history, no
\* history longer than max(history_windows, 10); and the state an invocation
\* loads is what the file holds, so what the last such invocation wrote.
C19_StateRoundTrip ==
    [][/\ stateFile' # stateFile =>
             \E p \in ProcIds :
                /\ run[p].pc = "write_state" /\ run[p].selected # <<>>
                /\ run'[p].pc = "write_report"
       /\ \A p \in ProcIds :
             /\ (run[p].pc = "write_state" /\ run'[p] # run[p]) =>
                   /\ stateFile'.exists
                   /\ JsonLoads(stateFile'.data) = run[p].state
                   /\ \A pat \in DOMAIN run[p].state :
                         Len(JsonLoads(stateFile'.data)[pat].instability_history)
                            <= Max(args.history_windows, HistoryFloor)
             /\ (run[p].pc = "load_state" /\ run'[p] # run[p]) =>
                   run'[p].state =
                      IF stateFile.exists THEN JsonLoads(stateFile.data)
                      ELSE <<>>]_vars

\* C19 witness: an invocation has loaded, as it was written, a state with a
\* clean streak and a history that holds a fraction.
C19_Witness ==
    \E p \in ProcIds :
       /\ run[p].pc = "patterns" /\ run[p].k = 1
       /\ run[p].state = Persisted
       /\ \E pat \in DOMAIN run[p].state :
             /\ run[p].state[pat].clean_streak >= 1
             /\ \E n \in DOMAIN run[p].state[pat].instability_history :
                   run[p].state[pat].instability_history[n] % Scale # 0

\* Whether this step posts a PR comment for invocation p.
Posts(p) ==
    /\ "comment" \notin Range(run[p].written)
    /\ "comment" \in Range(run'[p].written)

\* C20: notification is gated and best-effort.  A comment is posted only by
\* an invocation with aggregate_failures > 0 and a notification target, after
\* it has written the state, the report and the sparkline file; and the step
\* that posts or fails to post ends the invocation with exit status 0 and
\* leaves every artifact as it is.
C20_NotifyGated ==
    [][/\ comments' # comments => \E p \in ProcIds : Posts(p)
       /\ \A p \in ProcIds :
             /\ Posts(p) =>
                   /\ run[p].pc = "notify"
                   /\ run[p].aggregate_failures > 0
                   /\ args.notify
                   /\ {"state", "report", "sparkline"}
                         \subseteq Range(run[p].written)
                   /\ JsonLoads(stateFile.data) = run[p].state
                   /\ reportFile = FullReport(run[p])
                   /\ sparkFile.exists
             /\ (run[p].pc = "notify" /\ run'[p] # run[p]) =>
                   /\ run'[p].pc = "done"
                   /\ run'[p].exit_status = 0
                   /\ Artifacts' = Artifacts]_vars

\* C20 witness: an invocation with failures and a notification target has
\* ended with exit status 0 without its comment being posted, after an
\* earlier one had posted its own.
C20_Witness ==
    \E p \in ProcIds :
       /\ run[p].pc = "done"
       /\ run[p].exit_status = 0
       /\ args.notify /\ run[p].aggregate_failures > 0
       /\ "comment" \notin Range(run[p].written)
       /\ "sparkline" \in Range(run[p].written)
       /\ comments # <<>>

\* C21: sparkline mapping.  The sparkline written for a pattern has one
\* glyph per entry of its history, each with an index in 0..7; when the
\* history has two different values every entry equal to the largest has
\* index 7 and every entry equal to the smallest has index 0; when all
\* entries are equal every index is 0.
C21_SparkMapping ==
    [][\A p \in ProcIds :
          (run[p].pc = "write_spark" /\ run'[p] # run[p]) =>
             /\ sparkFile'.exists
             /\ DOMAIN sparkFile'.data = DOMAIN run[p].state
             /\ \A pat \in DOMAIN run[p].state :
                   LET hist == run[p].state[pat].instability_history
                       glyphs == sparkFile'.data[pat]
                       lo == SeqMin(hist)
                       hi == SeqMax(hist)
                   IN  hist # <<>> =>
                          /\ Len(glyphs) = Len(hist)
                          /\ \A n \in DOMAIN hist :
                                /\ glyphs[n] \in 0..(GlyphLevels - 1)
                                /\ 0 <= hist[n] /\ hist[n] <= Scale
                                /\ (lo < hi /\ hist[n] = hi)
                                      => glyphs[n] = GlyphLevels - 1
                                /\ (lo < hi /\ hist[n] = lo) => glyphs[n] = 0
                                /\ lo = hi => glyphs[n] = 0]_vars

\* C21 witness: a sparkline with the lowest glyph, the highest glyph and one
\* in between, over a history whose smallest value is not 0.
C21_Witness ==
    /\ sparkFile.exists
    /\ \E pat \in DOMAIN sparkFile.data :
          /\ pat \in DOMAIN Persisted
          /\ Len(sparkFile.data[pat]) = Len(Persisted[pat].instability_history)
          /\ SeqMin(Persisted[pat].instability_history) > 0
          /\ \E a, b, c \in DOMAIN sparkFile.data[pat] :
                /\ sparkFile.data[pat][a] = 0
                /\ sparkFile.data[pat][b] = GlyphLevels - 1
                /\ sparkFile.data[pat][c] \in 1..(GlyphLevels - 2)

IsPrefix(a, b) == Len(a) <= Len(b) /\ SubSeq(b, 1, Len(a)) = a

\* C23: last writer wins.  When an invocation writes the state, the file
\* becomes exactly its own state: the state it loaded with its own
\* transitions applied, whatever another invocation wrote in between (whose
\* transitions are thereby lost); and when nobody wrote since it loaded, as
\* when invocations run one at a time, every history in the file is kept and
\* only extended.
C23_LastWriterWins ==
    [][\A p \in ProcIds :
          Count(run'[p].written, "state") > Count(run[p].written, "state") =>
             LET r == run[p]
                 base == r.loaded[1]
                 new == JsonLoads(stateFile'.data)
             IN  /\ new = r.state
                 /\ DOMAIN new = DOMAIN base \cup DOMAIN r.pattern_status
                 /\ \A pat \in DOMAIN new :
                       new[pat] =
                          IF pat \in DOMAIN r.pattern_status
                          THEN UpdatedRec(StateGet(base, pat),
                                          Related(pat, r.selected),
                                          r.per_test, args)
                          ELSE base[pat]
                 /\ Persisted = base =>
                       \A pat \in DOMAIN Persisted :
                          /\ pat \in DOMAIN new
                          /\ IsPrefix(Persisted[pat].instability_history,
                                      new[pat].instability_history)]_vars

\* C23 witness: two invocations both loaded the empty state, both computed a
\* transition of the same pattern, with different outcomes, and both wrote;
\* the file holds one history entry: one transition is lost.
C23_Witness ==
    \E pat \in DOMAIN Persisted :
       /\ \A p \in ProcIds :
             /\ run[p].pc = "done"
             /\ run[p].loaded = << <<>> >>
             /\ pat \in DOMAIN run[p].pattern_status
             /\ Count(run[p].written, "state") = 1
       /\ \E p, q \in ProcIds : run[p].state[pat] # run[q].state[pat]
       /\ Len(Persisted[pat].instability_history) = 1

\* The clean invocations the observer has counted for a pattern.
CleanCount(pat) == IF pat \in DOMAIN cleanRuns THEN cleanRuns[pat] ELSE 0

C25_StreakNeedsExecution ==
    \A p \in ProcIds :
       AfterLoop(p) =>
          /\ \A pat \in DOMAIN run[p].pattern_status :
                run[p].state[pat].clean_streak
                      > StateGet(run[p].loaded[1], pat).clean_streak
                   => \A t \in Related(pat, run[p].selected) :
                         /\ run[p].per_test[t].attempts >= 1
                         /\ run[p].per_test[t].failures = 0
          /\ run[p].raw_log_parts = <<>> =>
                /\ run[p].removed = <<>>
                /\ \A pat \in DOMAIN run[p].pattern_status :
                      run[p].state[pat].clean_streak
                         <= StateGet(run[p].loaded[1], pat).clean_streak

\* Whether one failure among args.repeat attempts of one of n related tests
\* is recorded as 0.0000, for some n the inventories allow.
Vanishing ==
    \E n \in 1..Cardinality(UNION builds) :
       RoundHalfEven(TestInstability(1, args.repeat), n) = 0

\* The last min(clean_streak, length) entries of the history are all 0.
CleanTail(rec) ==
    \A i \in 1..Len(rec.instability_history) :
       i > Len(rec.instability_history) - rec.clean_streak
          => rec.instability_history[i] = 0

\* The history is non-empty and its last entry is > 0.
LastPositive(rec) ==
    /\ rec.instability_history # <<>>
    /\ rec.instability_history[Len(rec.instability_history)] > 0

\* C26 as stated: from an empty state and with repeat >= 1, every persisted
\* record has its last min(clean_streak, length) history entries equal to 0,
\* and clean_streak = 0 exactly when the history is non-empty and its last
\* entry is > 0.
C26_StreakMatchesHistory ==
    args.repeat >= 1 =>
       \A pat \in DOMAIN Persisted :
          /\ CleanTail(Persisted[pat])
          /\ Persisted[pat].clean_streak = 0 <=> LastPositive(Persisted[pat])

\* C26 amended: from an empty state and with repeat >= 1, every persisted
\* record has its last min(clean_streak, length) history entries equal to 0
\* and a last entry > 0 implies clean_streak = 0; clean_streak = 0 implies a
\* non-empty history with a last entry > 0 as long as a single failure
\* still shows at four decimals.
C26_StreakMatchesRounded ==
    args.repeat >= 1 =>
       \A pat \in DOMAIN Persisted :
          /\ CleanTail(Persisted[pat])
          /\ LastPositive(Persisted[pat]) => Persisted[pat].clean_streak = 0
          /\ ~Vanishing =>
                (Persisted[pat].clean_streak = 0 => LastPositive(Persisted[pat]))

\* C26 witness: after a failing and then a clean invocation the record has a
\* streak of 1, a last entry of 0 and a first entry > 0.
C26_Witness ==
    /\ args.repeat >= 1
    /\ ~Vanishing
    /\ \E pat \in DOMAIN Persisted :
          /\ Persisted[pat].clean_streak = 1
          /\ Len(Persisted[pat].instability_history) = 2
          /\ Persisted[pat].instability_history[1] > 0
          /\ Persisted[pat].instability_history[2] = 0

====
